---- MODULE Spec2Model ----
(***************************************************************************)
(* GraphEncoder (src/domain/graph_encoder.py): time-stepped message        *)
(* passing over a graph followed by the per-node encoding reduction.       *)
(*                                                                         *)
(* numpy floats are represented in fixed point: the integer v stands for   *)
(* v / Unit.  exp and tanh are tabulated on that grid (true values rounded *)
(* to the grid), every product is rounded back to the grid.  Node ids are  *)
(* 1..N here (0..N-1 in the code).                                         *)
(***************************************************************************)
EXTENDS Integers, Sequences, FiniteSets, TLC

VARIABLES
    time_steps,     \* GraphEncoder.time_steps
    weights,        \* the weight fields of the GraphEncoder
    graph,          \* argument of the encode call in progress (or of the last one)
    pc,             \* "idle" | "send" | "compose" | "encode"
    step,           \* loop variable of _send_messages: rounds completed
    messages,       \* local `messages` of _send_messages / encode
    new_messages,   \* local `new_messages` of _compose_messages_from_nodes_to_targets
    done,           \* iterations of a round's (node_id, end_node_id) double loop already run
    message,        \* the Message object composed last
    encoded_node,   \* local `encoded_node` of _encode_nodes
    node_pos,       \* loop variable of _encode_nodes
    msg_reads,      \* (i, j) slices of the messages tensor read by the rounds of this call
    enc_reads,      \* (i, j) slices of the messages tensor read by _encode_nodes in this call
    w_used,         \* per directed edge: the weights its last message was computed with
    returned,       \* every (graph, encodings) pair some encode call has returned
    repeated        \* graphs for which encode has returned more than once

vars == <<time_steps, weights, graph, pc, step, messages, new_messages, done, message,
          encoded_node, node_pos, msg_reads, enc_reads, w_used, returned, repeated>>

\* ------------------------------------------------------------------------
\* Bounds
\* ------------------------------------------------------------------------
MaxTimeSteps == 2

\* ------------------------------------------------------------------------
\* Fixed-point arithmetic
\* ------------------------------------------------------------------------
Unit == 10

Clamp == 4 * Unit

RoundDiv(a, d) == (2 * a + d) \div (2 * d)

ExpTable ==
    << 0, 0, 0, 0, 0, 0, 0, 0, 0, 0, 0, 1, 1, 1, 1, 1, 1, 1, 1, 1, 1, 1, 2, 2, 2, 2, 2,
       3, 3, 3, 4, 4, 4, 5, 5, 6, 7, 7, 8, 9, 10, 11, 12, 13, 15, 16, 18, 20, 22, 25, 27,
       30, 33, 37, 41, 45, 50, 55, 60, 67, 74, 82, 90, 100, 110, 122, 135, 149, 164, 182,
       201, 222, 245, 271, 300, 331, 366, 404, 447, 494, 546 >>

TanhTable ==
    << -10, -10, -10, -10, -10, -10, -10, -10, -10, -10, -10, -10, -10, -10, -10, -10,
       -10, -10, -10, -10, -10, -10, -9, -9, -9, -9, -9, -9, -8, -8, -8, -7, -7, -6, -5,
       -5, -4, -3, -2, -1, 0, 1, 2, 3, 4, 5, 5, 6, 7, 7, 8, 8, 8, 9, 9, 9, 9, 9, 9, 10,
       10, 10, 10, 10, 10, 10, 10, 10, 10, 10, 10, 10, 10, 10, 10, 10, 10, 10, 10, 10, 10 >>

Saturate(x) == IF x > Clamp THEN Clamp ELSE IF x < -Clamp THEN -Clamp ELSE x

Exp(x) == ExpTable[Saturate(x) + Clamp + 1]

\* np.exp(vector) / (np.exp(vector) + 1), one component
Sigmoid1(x) == RoundDiv(Exp(x) * Unit, Exp(x) + Unit)

\* np.tanh(vector), one component
Tanh1(x) == TanhTable[Saturate(x) + Clamp + 1]

\* np.maximum(0, vector), one component
Relu1(x) == IF x > 0 THEN x ELSE 0

Sigmoid(v) == [c \in DOMAIN v |-> Sigmoid1(v[c])]

Tanh(v) == [c \in DOMAIN v |-> Tanh1(v[c])]

Relu(v) == [c \in DOMAIN v |-> Relu1(v[c])]

ZeroVec(n) == [c \in 1..n |-> 0]

VAdd(a, b) == [c \in DOMAIN a |-> a[c] + b[c]]

\* elementwise product of two vectors
VMul(a, b) == [c \in DOMAIN a |-> RoundDiv(a[c] * b[c], Unit)]

\* 1 - vector
OneMinus(a) == [c \in DOMAIN a |-> Unit - a[c]]

RECURSIVE RowDot(_, _, _)
RowDot(row, v, n) == IF n = 0 THEN 0 ELSE row[n] * v[n] + RowDot(row, v, n - 1)

\* matrix.dot(vector)
Dot(m, v) == [r \in DOMAIN m |-> RoundDiv(RowDot(m[r], v, Len(v)), Unit)]

\* ------------------------------------------------------------------------
\* Graph, Node, Edge, Message
\* ------------------------------------------------------------------------
Vec(t) == [c \in 1..Len(t) |-> t[c]]

MakeGraph(nbrs, feats) ==
    [number_of_nodes         |-> Len(nbrs),
     number_of_node_features |-> Len(feats[1]),
     neighbors               |-> nbrs,
     node_features           |-> [i \in 1..Len(feats) |-> Vec(feats[i])]]

\* Node(graph, node_id).features
NodeFeatures(gr, i) == gr.node_features[i]

\* Node(graph, node_id).neighbors
NodeNeighbors(gr, i) == gr.neighbors[i]

\* Node(graph, node_id).neighbors_count
NeighborsCount(gr, i) == Len(gr.neighbors[i])

\* Edge.get_edge_slice()
EdgeSlice(s, e) == <<s, e>>

\* Edge.get_start_node_neighbors_without_end_node(): the start node's
\* neighbor ids without the end node, in adjacency order
NeighborsWithoutEnd(gr, s, e) == SelectSeq(NodeNeighbors(gr, s), LAMBDA k : k # e)

\* MessageGRU.compose()
Compose(previous_messages, update_gate, current_memory) ==
    VAdd(VMul(OneMinus(update_gate), previous_messages), VMul(update_gate, current_memory))

SeqToSet(s) == {s[x] : x \in DOMAIN s}

Adjacent(gr, i, j) == j \in SeqToSet(NodeNeighbors(gr, i))

\* ------------------------------------------------------------------------
\* Inputs: graphs and weight bundles
\* ------------------------------------------------------------------------
\* nodes 1 and 2 list each other
PairGraph == MakeGraph(<< <<2>>, <<1>> >>, << <<10>>, <<-20>> >>)

\* node 1 lists node 2, node 2 lists nobody
OneWayGraph == MakeGraph(<< <<2>>, <<>> >>, << <<15>>, <<5>> >>)

\* path 1 - 2 - 3
Path3Graph == MakeGraph(<< <<2>>, <<1, 3>>, <<2>> >>, << <<10, -5>>, <<5, 20>>, <<-10, 15>> >>)

\* node 1 lists 2 and 3, node 2 lists 1, node 3 lists nobody
AsymGraph == MakeGraph(<< <<2, 3>>, <<1>>, <<>> >>, << <<20, 5>>, <<-5, 10>>, <<10, 10>> >>)

\* triangle
TriangleGraph == MakeGraph(<< <<2, 3>>, <<1, 3>>, <<1, 2>> >>, << <<10, 0>>, <<0, 10>>, <<-10, 20>> >>)

\* path 1 - 2 - 3 - 4
Path4Graph == MakeGraph(<< <<2>>, <<1, 3>>, <<2, 4>>, <<3>> >>, << <<10>>, <<-5>>, <<20>>, <<5>> >>)

Graphs == {PairGraph, OneWayGraph, Path3Graph, AsymGraph, TriangleGraph, Path4Graph}

Dims(gr) == <<gr.number_of_nodes, gr.number_of_node_features>>

\* F x F matrix with d on the diagonal and o elsewhere
Mat(f, d, o) == [r \in 1..f |-> [c \in 1..f |-> IF r = c THEN d ELSE o]]

\* The same matrices at every [i, j] slice
SharedWeights(n, f) ==
    [w_gru_update_gate_features            |-> [i \in 1..n |-> [j \in 1..n |-> Mat(f, 5, 2)]],
     w_gru_current_memory_message_features |-> [i \in 1..n |-> [j \in 1..n |-> Mat(f, 8, -3)]],
     u_gru_update_gate                     |-> [i \in 1..n |-> [j \in 1..n |-> Mat(f, 6, 1)]],
     u_gru_current_memory_message          |-> [i \in 1..n |-> [j \in 1..n |-> Mat(f, 12, 4)]],
     b_gru_update_gate                     |-> [c \in 1..f |-> 2],
     b_gru_current_memory_message          |-> [c \in 1..f |-> -1],
     u_graph_node_features                 |-> [i \in 1..n |-> Mat(f, 10, 3)],
     u_graph_neighbor_messages             |-> [i \in 1..n |-> Mat(f, 10, -2)]]

\* Different matrices at different [i, j] slices
PerEdgeWeights(n, f) ==
    [w_gru_update_gate_features            |-> [i \in 1..n |-> [j \in 1..n |-> Mat(f, 3 * i - 2 * j + 4, i - j)]],
     w_gru_current_memory_message_features |-> [i \in 1..n |-> [j \in 1..n |-> Mat(f, 2 * j - i + 6, 2)]],
     u_gru_update_gate                     |-> [i \in 1..n |-> [j \in 1..n |-> Mat(f, i + 3 * j, -1)]],
     u_gru_current_memory_message          |-> [i \in 1..n |-> [j \in 1..n |-> Mat(f, 9 + i - j, 2 * j - 3)]],
     b_gru_update_gate                     |-> [c \in 1..f |-> 3 - c],
     b_gru_current_memory_message          |-> [c \in 1..f |-> c],
     u_graph_node_features                 |-> [i \in 1..n |-> Mat(f, 6 + 2 * i, i - 2)],
     u_graph_neighbor_messages             |-> [i \in 1..n |-> Mat(f, 12 - i, i)]]

WeightChoices(n, f) == {SharedWeights(n, f), PerEdgeWeights(n, f)}

\* ------------------------------------------------------------------------
\* Message computation for one directed edge (s -> e) from the tensor msgs
\* ------------------------------------------------------------------------
\* EdgeWeights with the slice indices swapped
EdgeWeightsTransposed(s, e) ==
    [w_update |-> weights.w_gru_update_gate_features[e][s],
     u_update |-> weights.u_gru_update_gate[e][s],
     b_update |-> weights.b_gru_update_gate,
     w_memory |-> weights.w_gru_current_memory_message_features[e][s],
     u_memory |-> weights.u_gru_current_memory_message[e][s],
     b_memory |-> weights.b_gru_current_memory_message]

\* the weights indexed for edge slice [s, e], and the shared biases
EdgeWeights(s, e) ==
    [w_update |-> weights.w_gru_update_gate_features[EdgeSlice(s, e)[1]][EdgeSlice(s, e)[2]],
     u_update |-> weights.u_gru_update_gate[EdgeSlice(s, e)[1]][EdgeSlice(s, e)[2]],
     b_update |-> weights.b_gru_update_gate,
     w_memory |-> weights.w_gru_current_memory_message_features[EdgeSlice(s, e)[1]][EdgeSlice(s, e)[2]],
     u_memory |-> weights.u_gru_current_memory_message[EdgeSlice(s, e)[1]][EdgeSlice(s, e)[2]],
     b_memory |-> weights.b_gru_current_memory_message]

RECURSIVE SumSlices(_, _, _, _)
\* np.sum(messages[i, ks], axis=0) for a sequence ks of second indices
SumSlices(msgs, i, ks, f) ==
    IF ks = <<>> THEN ZeroVec(f)
    ELSE VAdd(msgs[i][Head(ks)], SumSlices(msgs, i, Tail(ks), f))

\* PreviousSlice summing the start node's whole row
PreviousSliceWholeRow(gr, s, e) == [j \in 1..gr.number_of_nodes |-> j]

\* PreviousSlice with the neighbors_count guard off by one
PreviousSliceGuardOffByOne(gr, s, e) ==
    IF NeighborsCount(gr, s) > 2 THEN NeighborsWithoutEnd(gr, s, e) ELSE <<>>

\* second indices of the slices _get_messages_from_all_node_neighbors_except_target_summed sums
PreviousSlice(gr, s, e) ==
    IF NeighborsCount(gr, s) > 1 THEN NeighborsWithoutEnd(gr, s, e) ELSE <<>>

OtherNeighborsSummed(gr, msgs, s, e) ==
    SumSlices(msgs, s, PreviousSlice(gr, s, e), Len(NodeFeatures(gr, s)))

PassThroughUpdateGate(gr, msgs, s, e) ==
    Sigmoid(VAdd(VAdd(Dot(EdgeWeights(s, e).w_update, gr.node_features[s]),
                      Dot(EdgeWeights(s, e).u_update, OtherNeighborsSummed(gr, msgs, s, e))),
                 EdgeWeights(s, e).b_update))

PassThroughResetGate(gr, msgs, s, k) ==
    Sigmoid(VAdd(VAdd(Dot(EdgeWeights(s, k).w_update, gr.node_features[s]),
                      Dot(EdgeWeights(s, k).u_update, msgs[EdgeSlice(s, k)[1]][EdgeSlice(s, k)[2]])),
                 EdgeWeights(s, k).b_update))

\* the reset nodes _keep_or_reset_messages iterates over
ResetSlice(gr, s, e) == NeighborsWithoutEnd(gr, s, e)

RECURSIVE ResetWeightedSum(_, _, _, _)
\* messages_from_the_other_neighbors_summed.value after the loop over the reset nodes ks
ResetWeightedSum(gr, msgs, s, ks) ==
    IF ks = <<>> THEN ZeroVec(Len(NodeFeatures(gr, s)))
    ELSE VAdd(VMul(PassThroughResetGate(gr, msgs, s, Head(ks)),
                   msgs[EdgeSlice(s, Head(ks))[1]][EdgeSlice(s, Head(ks))[2]]),
              ResetWeightedSum(gr, msgs, s, Tail(ks)))

KeepOrResetMessages(gr, msgs, s, e) ==
    Dot(EdgeWeights(s, e).u_memory, ResetWeightedSum(gr, msgs, s, ResetSlice(gr, s, e)))

GetCurrentMemoryMessage(gr, msgs, s, e) ==
    Tanh(VAdd(VAdd(Dot(EdgeWeights(s, e).w_memory, gr.node_features[s]),
                   Dot(EdgeWeights(s, e).u_memory, KeepOrResetMessages(gr, msgs, s, e))),
              EdgeWeights(s, e).b_memory))

\* the Message returned by _get_message_inputs, after message.compose()
GetMessageInputs(gr, msgs, s, e) ==
    [previous_messages  |-> OtherNeighborsSummed(gr, msgs, s, e),
     update_gate        |-> PassThroughUpdateGate(gr, msgs, s, e),
     current_memory     |-> GetCurrentMemoryMessage(gr, msgs, s, e),
     value              |-> Compose(OtherNeighborsSummed(gr, msgs, s, e),
                                    PassThroughUpdateGate(gr, msgs, s, e),
                                    GetCurrentMemoryMessage(gr, msgs, s, e)),
     reset_nodes        |-> ResetSlice(gr, s, e),
     reset_weighted_sum |-> ResetWeightedSum(gr, msgs, s, ResetSlice(gr, s, e)),
     edge               |-> EdgeSlice(s, e)]

\* slices of the tensor read while computing the message of edge (s -> e)
MessageReads(gr, s, e) ==
    {<<s, k>> : k \in SeqToSet(PreviousSlice(gr, s, e))}
        \cup {EdgeSlice(s, k) : k \in SeqToSet(ResetSlice(gr, s, e))}

\* ------------------------------------------------------------------------
\* encode: _send_messages, _compose_messages_from_nodes_to_targets, _encode_nodes
\* ------------------------------------------------------------------------
NoGraph == [number_of_nodes |-> 0, number_of_node_features |-> 0,
            neighbors |-> <<>>, node_features |-> <<>>]

NoMessage == [edge |-> <<>>]

\* ZeroMessages keeping the tensor of the previous call when there is one
CachedMessages(gr) ==
    IF messages = <<>>
    THEN [i \in 1..gr.number_of_nodes |->
            [j \in 1..gr.number_of_nodes |-> ZeroVec(gr.number_of_node_features)]]
    ELSE messages

\* np.zeros((number_of_nodes, number_of_nodes, number_of_node_features))
ZeroMessages(gr) ==
    [i \in 1..gr.number_of_nodes |->
        [j \in 1..gr.number_of_nodes |-> ZeroVec(gr.number_of_node_features)]]

\* np.zeros_like(messages)
ZerosLike(msgs) ==
    [i \in DOMAIN msgs |-> [j \in DOMAIN msgs[i] |-> [c \in DOMAIN msgs[i][j] |-> 0]]]

\* ZeroEncodings shaped like the first two axes of the messages tensor
ZeroEncodingsSquare(gr) ==
    [i \in 1..gr.number_of_nodes |-> [j \in 1..gr.number_of_nodes |-> 0]]

\* np.zeros(graph.node_features.shape)
ZeroEncodings(gr) ==
    [i \in DOMAIN gr.node_features |-> [c \in DOMAIN gr.node_features[i] |-> 0]]

\* RoundsToRun of a loop that tests its bound after the body
RoundsToRunAtLeastOnce == IF time_steps = 0 THEN 1 ELSE time_steps

\* range(self.time_steps)
RoundsToRun == time_steps

RECURSIVE EdgesFrom(_, _)
EdgesFrom(gr, i) ==
    IF i > gr.number_of_nodes THEN <<>>
    ELSE [x \in 1..Len(NodeNeighbors(gr, i)) |-> <<i, NodeNeighbors(gr, i)[x]>>]
             \o EdgesFrom(gr, i + 1)

\* the (node_id, end_node_id) pairs in the order the double loop visits them
EdgeOrder(gr) == EdgesFrom(gr, 1)

\* MessageSource reading the tensor being written
MessageSourceNew(old, new) == new

\* the tensor a round's message computations read from
MessageSource(old, new) == old

\* WriteMessage writing the reverse edge's slice
WriteMessageTransposed(new, s, e, value) == [new EXCEPT ![e][s] = value]

\* new_messages[edge_slice] = message.value
WriteMessage(new, s, e, value) ==
    [new EXCEPT ![EdgeSlice(s, e)[1]][EdgeSlice(s, e)[2]] = value]

\* one iteration of the inner loop of _compose_messages_from_nodes_to_targets
ComposeStep(gr, old, new, ed) ==
    WriteMessage(new, ed[1], ed[2],
                 GetMessageInputs(gr, MessageSource(old, new), ed[1], ed[2]).value)

\* SentMessages taking the slices [j, node_id] instead
ReceivedMessages(msgs, i) == [j \in DOMAIN msgs |-> msgs[j][i]]

\* messages[node_id]: the slices [node_id, j] for every j
SentMessages(msgs, i) == [j \in DOMAIN msgs[i] |-> msgs[i][j]]

RECURSIVE SumVectors(_, _)
\* np.sum(rows, axis=0)
SumVectors(rows, f) ==
    IF rows = <<>> THEN ZeroVec(f) ELSE VAdd(Head(rows), SumVectors(Tail(rows), f))

ApplyRecurrentLayerForNode(gr, msgs, i) ==
    Relu(VAdd(Dot(weights.u_graph_node_features[i], gr.node_features[i]),
              Dot(weights.u_graph_neighbor_messages[i],
                  SumVectors(SentMessages(msgs, i), gr.number_of_node_features))))

\* slices read by np.sum(messages[node_id], axis=0)
EncodeReads(msgs, i) == {<<i, j>> : j \in DOMAIN SentMessages(msgs, i)}

EncoderDims == <<Len(weights.u_graph_node_features), Len(weights.b_gru_update_gate)>>

Init ==
    /\ time_steps \in 0..MaxTimeSteps
    /\ \E gr \in Graphs : weights \in WeightChoices(Dims(gr)[1], Dims(gr)[2])
    /\ graph = NoGraph
    /\ pc = "idle"
    /\ step = 0
    /\ messages = <<>>
    /\ new_messages = <<>>
    /\ done = {}
    /\ message = NoMessage
    /\ encoded_node = <<>>
    /\ node_pos = 0
    /\ msg_reads = {}
    /\ enc_reads = {}
    /\ w_used = <<>>
    /\ returned = {}
    /\ repeated = {}

\* encode(graph) is called: _send_messages allocates the messages tensor
Encode(gr) ==
    /\ pc = "idle"
    /\ Dims(gr) = EncoderDims
    /\ graph' = gr
    /\ messages' = ZeroMessages(gr)
    /\ step' = 0
    /\ pc' = "send"
    /\ msg_reads' = {}
    /\ enc_reads' = {}
    /\ w_used' = <<>>
    /\ message' = NoMessage
    /\ UNCHANGED <<time_steps, weights, new_messages, done, encoded_node, node_pos,
                   returned, repeated>>

\* a round starts: _compose_messages_from_nodes_to_targets allocates new_messages
BeginRound ==
    /\ pc = "send"
    /\ step < RoundsToRun
    /\ new_messages' = ZerosLike(messages)
    /\ done' = {}
    /\ pc' = "compose"
    /\ UNCHANGED <<time_steps, weights, graph, step, messages, message, encoded_node,
                   node_pos, msg_reads, enc_reads, w_used, returned, repeated>>

\* iteration x of the double loop of a round
ComposeIteration(x) ==
    /\ pc = "compose"
    /\ x \in DOMAIN EdgeOrder(graph) \ done
    /\ LET ed == EdgeOrder(graph)[x] IN
        /\ message' = GetMessageInputs(graph, MessageSource(messages, new_messages), ed[1], ed[2])
        /\ new_messages' = ComposeStep(graph, messages, new_messages, ed)
        /\ msg_reads' = msg_reads \cup MessageReads(graph, ed[1], ed[2])
        /\ w_used' = [y \in DOMAIN w_used \cup {ed} |->
                        IF y = ed THEN EdgeWeights(ed[1], ed[2]) ELSE w_used[y]]
    /\ done' = done \cup {x}
    /\ UNCHANGED <<time_steps, weights, graph, pc, step, messages, encoded_node, node_pos,
                   enc_reads, returned, repeated>>

\* the next (node, end_node) iteration of the round, in the order of the loops
ComposeEdge == ComposeIteration(Cardinality(done) + 1)

\* any remaining (node, end_node) iteration of the round
ComposeAnyEdge == \E x \in DOMAIN EdgeOrder(graph) : ComposeIteration(x)

\* the round returns new_messages, which replaces messages
EndRound ==
    /\ pc = "compose"
    /\ done = DOMAIN EdgeOrder(graph)
    /\ messages' = new_messages
    /\ step' = step + 1
    /\ pc' = "send"
    /\ new_messages' = <<>>
    /\ message' = NoMessage
    /\ done' = {}
    /\ UNCHANGED <<time_steps, weights, graph, encoded_node,
                   node_pos, msg_reads, enc_reads, w_used, returned, repeated>>

\* the rounds are over: _encode_nodes allocates encoded_node
BeginEncodeNodes ==
    /\ pc = "send"
    /\ step >= RoundsToRun
    /\ encoded_node' = ZeroEncodings(graph)
    /\ node_pos' = 1
    /\ pc' = "encode"
    /\ UNCHANGED <<time_steps, weights, graph, step, messages, new_messages, done, message,
                   msg_reads, enc_reads, w_used, returned, repeated>>

\* one iteration of the loop of _encode_nodes
EncodeNode ==
    /\ pc = "encode"
    /\ node_pos <= graph.number_of_nodes
    /\ encoded_node' = [encoded_node EXCEPT
                          ![node_pos] = VAdd(@, ApplyRecurrentLayerForNode(graph, messages, node_pos))]
    /\ enc_reads' = enc_reads \cup EncodeReads(messages, node_pos)
    /\ node_pos' = node_pos + 1
    /\ UNCHANGED <<time_steps, weights, graph, pc, step, messages, new_messages, done, message,
                   msg_reads, w_used, returned, repeated>>

\* encode returns the encodings
Return ==
    /\ pc = "encode"
    /\ node_pos > graph.number_of_nodes
    /\ returned' = returned \cup {<<graph, encoded_node>>}
    /\ repeated' = IF \E p \in returned : p[1] = graph THEN repeated \cup {graph} ELSE repeated
    /\ pc' = "idle"
    /\ encoded_node' = <<>>
    /\ node_pos' = 0
    /\ UNCHANGED <<time_steps, weights, graph, step, messages, new_messages, done, message,
                   msg_reads, enc_reads, w_used>>

Next ==
    \/ \E gr \in Graphs : Encode(gr)
    \/ BeginRound
    \/ ComposeEdge
    \/ EndRound
    \/ BeginEncodeNodes
    \/ EncodeNode
    \/ Return

Spec == Init /\ [][Next]_vars

\* the same program with the iterations of a round run in an arbitrary order
NextAnyOrder ==
    \/ \E gr \in Graphs : Encode(gr)
    \/ BeginRound
    \/ ComposeAnyEdge
    \/ EndRound
    \/ BeginEncodeNodes
    \/ EncodeNode
    \/ Return

SpecAnyOrder == Init /\ [][NextAnyOrder]_vars

TypeOK ==
    /\ pc \in {"idle", "send", "compose", "encode"}
    /\ time_steps \in 0..MaxTimeSteps
    /\ step \in 0..MaxTimeSteps

\* ------------------------------------------------------------------------
\* Properties
\* ------------------------------------------------------------------------
NodeTerm(gr, i) == Relu(Dot(weights.u_graph_node_features[i], gr.node_features[i]))

SameShape(enc, gr) ==
    /\ DOMAIN enc = DOMAIN gr.node_features
    /\ \A i \in DOMAIN enc : DOMAIN enc[i] = DOMAIN gr.node_features[i]

\* C1: the encodings encode builds and returns have the shape of
\* graph.node_features: one row per node, each row of length F.
C1_ShapeOfEncodings ==
    /\ pc = "encode" =>
          /\ SameShape(encoded_node, graph)
          /\ DOMAIN encoded_node = 1..graph.number_of_nodes
          /\ \A i \in DOMAIN encoded_node :
                DOMAIN encoded_node[i] = 1..graph.number_of_node_features
    /\ \A p \in returned : SameShape(p[2], p[1])

C1_Witness ==
    /\ pc = "encode"
    /\ node_pos > graph.number_of_nodes
    /\ time_steps >= 1
    /\ graph.number_of_nodes # graph.number_of_node_features
    /\ \E i \in DOMAIN encoded_node : encoded_node[i] # ZeroVec(graph.number_of_node_features)

\* C2: whatever encode calls came before, every call of encode on the same
\* graph (same weights, same time_steps) returns the same encodings.
C2_SameGraphSameEncodings ==
    \A p \in returned : \A q \in returned : p[1] = q[1] => p[2] = q[2]

C2_Witness ==
    /\ time_steps >= 1
    /\ Path3Graph \in repeated
    /\ \E p \in returned : p[1] = TriangleGraph

IsPathGraph(gr) ==
    /\ gr.number_of_nodes >= 2
    /\ \A i \in 1..gr.number_of_nodes :
          SeqToSet(NodeNeighbors(gr, i)) = {i - 1, i + 1} \cap (1..gr.number_of_nodes)

Distance(i, j) == IF i > j THEN i - j ELSE j - i

C5_NodeWithoutNeighbors ==
    /\ \A i \in DOMAIN messages :
          NeighborsCount(graph, i) = 0 =>
              /\ \A j \in DOMAIN messages[i] :
                    messages[i][j] = ZeroVec(graph.number_of_node_features)
              /\ (pc = "encode" /\ node_pos > i) => encoded_node[i] = NodeTerm(graph, i)
    /\ \A p \in returned : \A i \in DOMAIN p[2] :
          NeighborsCount(p[1], i) = 0 => p[2][i] = NodeTerm(p[1], i)

C5_Witness ==
    /\ pc = "encode"
    /\ node_pos > graph.number_of_nodes
    /\ time_steps >= 1
    /\ \E i \in DOMAIN messages :
          /\ NeighborsCount(graph, i) = 0
          /\ \E j \in DOMAIN messages :
                /\ Adjacent(graph, j, i)
                /\ messages[j][i] # ZeroVec(graph.number_of_node_features)

\* C6: with time_steps = 0 the tensor handed to _encode_nodes is all zero and
\* every encoding is ReLU(U_node_features[node] . features).
C6_NoRounds ==
    /\ (time_steps = 0 /\ pc = "encode") =>
          /\ messages = [i \in 1..graph.number_of_nodes |->
                           [j \in 1..graph.number_of_nodes |->
                               [c \in 1..graph.number_of_node_features |-> 0]]]
          /\ \A i \in 1..(node_pos - 1) : encoded_node[i] = NodeTerm(graph, i)
    /\ time_steps = 0 =>
          \A p \in returned : \A i \in DOMAIN p[2] : p[2][i] = NodeTerm(p[1], i)

C6_Witness ==
    /\ time_steps = 0
    /\ pc = "encode"
    /\ node_pos > graph.number_of_nodes
    /\ graph = TriangleGraph
    /\ \E i \in DOMAIN encoded_node : encoded_node[i] # ZeroVec(graph.number_of_node_features)

\* C7: messages[i, j] is the zero vector whenever j is not in node i's
\* neighbor list, in the tensor between rounds and in the one a round builds.
C7_NonEdgesAreZero ==
    /\ \A i \in DOMAIN messages : \A j \in DOMAIN messages[i] :
          ~Adjacent(graph, i, j) => messages[i][j] = ZeroVec(graph.number_of_node_features)
    /\ pc = "compose" =>
          \A i \in DOMAIN new_messages : \A j \in DOMAIN new_messages[i] :
              ~Adjacent(graph, i, j) => new_messages[i][j] = ZeroVec(graph.number_of_node_features)

C7_Witness ==
    /\ step >= 1
    /\ \E i \in DOMAIN messages : \E j \in DOMAIN messages :
          /\ Adjacent(graph, i, j)
          /\ ~Adjacent(graph, j, i)
          /\ messages[i][j] # ZeroVec(graph.number_of_node_features)

RECURSIVE RoundFrom(_, _, _, _)
\* the tensor a round builds when it visits the (node, end_node) pairs in the given order
RoundFrom(gr, old, new, order) ==
    IF order = <<>> THEN new
    ELSE RoundFrom(gr, old, ComposeStep(gr, old, new, Head(order)), Tail(order))

\* C8: in whatever order the (node, end_node) iterations of a round run, the
\* tensor the round has built is the one the loops' own order builds from the
\* old tensor; an iteration leaves the old tensor alone and changes no slice
\* of the new tensor but its own edge's.
C8_RoundIsOrderIndependent ==
    /\ []((pc = "compose" /\ done = DOMAIN EdgeOrder(graph)) =>
            new_messages = RoundFrom(graph, messages, ZerosLike(messages), EdgeOrder(graph)))
    /\ [][(pc = "compose" /\ pc' = "compose") =>
            /\ messages' = messages
            /\ \A i \in DOMAIN new_messages : \A j \in DOMAIN new_messages[i] :
                  (\A x \in done' \ done : <<i, j>> # EdgeOrder(graph)[x])
                      => new_messages'[i][j] = new_messages[i][j]]_vars

\* every iteration of the round has run, the last one of the loops' order not last
C8_Witness ==
    /\ pc = "compose"
    /\ done = DOMAIN EdgeOrder(graph)
    /\ Len(EdgeOrder(graph)) >= 4
    /\ step >= 1
    /\ new_messages # messages
    /\ message.edge # EdgeOrder(graph)[Len(EdgeOrder(graph))]

RECURSIVE SumOverNodes(_, _, _, _)
SumOverNodes(msgs, s, ks, f) ==
    IF ks = {} THEN ZeroVec(f)
    ELSE LET k == CHOOSE x \in ks : TRUE
         IN  VAdd(msgs[s][k], SumOverNodes(msgs, s, ks \ {k}, f))

====
